---- MODULE Spec2Model ----
(***************************************************************************)
(* json2openapi: inference of an OpenAPI schema from an example payload    *)
(* and assembly of the OpenAPI document around it.                         *)
(*                                                                         *)
(* Python values are tagged records [k |-> kind, v |-> payload]; a dict is *)
(* the sequence of its <<key, value>> pairs in insertion order, so that    *)
(* key order and key types are part of the value.                          *)
(***************************************************************************)
EXTENDS Integers, Sequences, FiniteSets, TLC

VARIABLES
    args,        \* per build: the parsed command line (argparse namespace)
    pc,          \* per build: position in main()
    oapi,        \* per build: the local dict `oapi` of main()
    _example,    \* the module-level global `_example`
    validated,   \* per build: outcome of OpenAPI(oapi): "none", "valid", "SpecError"
    nvalidate,   \* per build: how many times OpenAPI(oapi) has run
    out,         \* per build: what has been dumped, and where
    warnings,    \* per build: the "looks not valid, skip ..." warnings printed
    inferIn,     \* direct call of _gen_schema: its argument
    inferOut,    \* direct call of _gen_schema: its result
    cli          \* the run of inducoapi's main(): its position, options and effects

vars ==
    <<args, pc, oapi, _example, validated, nvalidate, out, warnings, inferIn, inferOut, cli>>

\* Longest list and largest dict among the payload values of the model.
MaxLen == 2

----------------------------------------------------------------------------
\* Python values

PyNone == [k |-> "None", v |-> 0]
PyBool(b) == [k |-> "bool", v |-> b]
PyInt(n) == [k |-> "int", v |-> n]
\* A float, named by its value in tenths: PyFloat(15) is 1.5.
PyFloat(n) == [k |-> "float", v |-> n]
PyStr(s) == [k |-> "str", v |-> s]
\* A datetime.date, which yaml.safe_load yields for a text such as 2020-01-01.
PyDate == [k |-> "date", v |-> 0]
PyList(s) == [k |-> "list", v |-> s]
PyDict(pairs) == [k |-> "dict", v |-> pairs]

EmptyDict == PyDict(<<>>)

\* isinstance(val, cls): bool is a subclass of int.
isinstance(val, cls) ==
    CASE cls = "int" -> val.k \in {"int", "bool"}
      [] OTHER -> val.k = cls

\* Truth value of a Python object, as `if x:` tests it.
Truthy(val) ==
    CASE val.k = "None" -> FALSE
      [] val.k = "bool" -> val.v
      [] val.k \in {"int", "float"} -> val.v # 0
      [] val.k = "str" -> val.v # ""
      [] val.k \in {"list", "dict"} -> val.v # <<>>
      [] OTHER -> TRUE

\* key in d
HasKey(d, key) == \E i \in DOMAIN d.v : d.v[i][1] = key

\* d[key]
GetItem(d, key) == d.v[CHOOSE i \in DOMAIN d.v : d.v[i][1] = key][2]

\* d[key] = val: an existing key keeps its place, a new key goes last.
SetItem(d, key, val) ==
    IF HasKey(d, key)
    THEN PyDict([i \in DOMAIN d.v |-> IF d.v[i][1] = key THEN <<key, val>> ELSE d.v[i]])
    ELSE PyDict(Append(d.v, <<key, val>>))

\* del d[key]
DelItem(d, key) ==
    LET Keep(pair) == pair[1] # key IN PyDict(SelectSeq(d.v, Keep))

\* list(d.keys())
KeysOf(d) == [i \in DOMAIN d.v |-> d.v[i][1]]

\* d[k1][k2]...[kn]
RECURSIVE GetPath(_, _)
GetPath(d, keys) ==
    IF keys = <<>> THEN d ELSE GetPath(GetItem(d, Head(keys)), Tail(keys))

\* k1 in d and k2 in d[k1] and ...
RECURSIVE HasPath(_, _)
HasPath(d, keys) ==
    \/ keys = <<>>
    \/ /\ d.k = "dict"
       /\ HasKey(d, Head(keys))
       /\ HasPath(GetItem(d, Head(keys)), Tail(keys))

\* d[k1]...[kn] = val, the dicts d[k1]...[kn-1] existing
RECURSIVE SetPath(_, _, _)
SetPath(d, keys, val) ==
    IF Len(keys) = 1
    THEN SetItem(d, keys[1], val)
    ELSE SetItem(d, Head(keys), SetPath(GetItem(d, Head(keys)), Tail(keys), val))

\* del d[k1]...[kn]
RECURSIVE DelPath(_, _)
DelPath(d, keys) ==
    IF Len(keys) = 1
    THEN DelItem(d, keys[1])
    ELSE SetItem(d, Head(keys), DelPath(GetItem(d, Head(keys)), Tail(keys)))

----------------------------------------------------------------------------
\* Schema inference

\* _get_type_ex returning the example whatever `_example` is.
_get_type_ex_always(val, example) ==
    LET ex == IF val = PyNone THEN PyStr("") ELSE val
        t == CASE val = PyNone -> "string"
               [] isinstance(val, "str") -> "string"
               [] isinstance(val, "int") -> "integer"
               [] isinstance(val, "float") -> "number"
               [] OTHER -> ""
    IN PyDict(<< <<PyStr("type"), PyStr(t)>>, <<PyStr("example"), ex>> >>)

\* _get_type_ex(val), the global `_example` it reads passed as `example`.
_get_type_ex(val, example) ==
    LET ex == IF val = PyNone THEN PyStr("") ELSE val
        t == CASE val = PyNone -> "string"
               [] isinstance(val, "str") -> "string"
               [] isinstance(val, "int") -> "integer"
               [] isinstance(val, "float") -> "number"
               [] isinstance(val, "bool") -> "boolean"
               [] OTHER -> ""
    IN IF example
       THEN PyDict(<< <<PyStr("type"), PyStr(t)>>, <<PyStr("example"), ex>> >>)
       ELSE PyDict(<< <<PyStr("type"), PyStr(t)>> >>)

\* _gen_schema(data), the global `_example` its leaves read passed as `example`.
RECURSIVE _gen_schema(_, _)

\* _gen_schema taking the items of an array from data[-1].
_gen_schema_last(data, example) ==
    IF isinstance(data, "dict")
    THEN PyDict(<< <<PyStr("type"), PyStr("object")>>,
                   <<PyStr("properties"),
                     PyDict([i \in DOMAIN data.v |->
                               <<data.v[i][1], _gen_schema(data.v[i][2], example)>>])>> >>)
    ELSE IF isinstance(data, "list")
    THEN PyDict(<< <<PyStr("type"), PyStr("array")>>,
                   <<PyStr("items"),
                     IF Truthy(data)
                     THEN _gen_schema(data.v[Len(data.v)], example)
                     ELSE EmptyDict>> >>)
    ELSE _get_type_ex(data, example)

\* _gen_schema typing each property with _get_type_ex instead of recursing.
_gen_schema_flat(data, example) ==
    IF isinstance(data, "dict")
    THEN PyDict(<< <<PyStr("type"), PyStr("object")>>,
                   <<PyStr("properties"),
                     PyDict([i \in DOMAIN data.v |->
                               <<data.v[i][1], _get_type_ex(data.v[i][2], example)>>])>> >>)
    ELSE IF isinstance(data, "list")
    THEN PyDict(<< <<PyStr("type"), PyStr("array")>>,
                   <<PyStr("items"),
                     IF Truthy(data) THEN _gen_schema(data.v[1], example) ELSE EmptyDict>> >>)
    ELSE _get_type_ex(data, example)

_gen_schema(data, example) ==
    IF isinstance(data, "dict")
    THEN PyDict(<< <<PyStr("type"), PyStr("object")>>,
                   <<PyStr("properties"),
                     PyDict([i \in DOMAIN data.v |->
                               <<data.v[i][1], _gen_schema(data.v[i][2], example)>>])>> >>)
    ELSE IF isinstance(data, "list")
    THEN PyDict(<< <<PyStr("type"), PyStr("array")>>,
                   <<PyStr("items"),
                     IF Truthy(data) THEN _gen_schema(data.v[1], example) ELSE EmptyDict>> >>)
    ELSE _get_type_ex(data, example)

----------------------------------------------------------------------------
\* Files and decoding

\* A file is named by how its text parses: as JSON (and then as YAML too) to
\* `val`, as YAML only to `val`, as neither ("bad"), or not at all because it
\* cannot be opened ("unreadable"). "noarg" is the option not being given.
File(fmt, val) == [fmt |-> fmt, val |-> val]
NoArg == File("noarg", PyNone)

\* json.load(f): the value, or JSONDecodeError (ok = FALSE).
json_load(f) ==
    IF f.fmt = "json" THEN [ok |-> TRUE, val |-> f.val] ELSE [ok |-> FALSE, val |-> PyNone]

\* yaml.safe_load(f): the value, or YAMLError (ok = FALSE).
yaml_safe_load(f) ==
    IF f.fmt \in {"json", "yaml"}
    THEN [ok |-> TRUE, val |-> f.val]
    ELSE [ok |-> FALSE, val |-> PyNone]

\* _load_file(file), for a file that opens.
_load_file(f) ==
    IF json_load(f).ok THEN json_load(f).val
    ELSE IF yaml_safe_load(f).ok THEN yaml_safe_load(f).val
    ELSE PyNone

----------------------------------------------------------------------------
\* main()

\* str.lower() on the METHOD choices of the parser.
lower(m) ==
    CASE m = "GET" -> "get"
      [] m = "POST" -> "post"
      [] m = "PUT" -> "put"
      [] m = "PATCH" -> "patch"
      [] m = "DELETE" -> "delete"

\* `if args.request:` / `if args.response:` / `if args.output:`
Given(f) == f.fmt # "noarg"

\* oapi["paths"][args.path][args.method.lower()]
OpPath(a) == <<PyStr("paths"), PyStr(a.path), PyStr(lower(a.method))>>

\* The dict literal bound to `oapi`.
Skeleton(a) ==
    PyDict(<<
        <<PyStr("openapi"), PyStr("3.0.0")>>,
        <<PyStr("info"), PyDict(<<
            <<PyStr("title"), PyStr("Generated by json2openapi")>>,
            <<PyStr("version"), PyStr("v1")>> >>)>>,
        <<PyStr("paths"), PyDict(<<
            <<PyStr(a.path), PyDict(<<
                <<PyStr(lower(a.method)), PyDict(<<
                    <<PyStr("requestBody"), PyNone>>,
                    <<PyStr("responses"), PyDict(<<
                        <<PyInt(a.resp_code), PyDict(<<
                            <<PyStr("description"), PyStr("")>> >>)>> >>)>> >>)>> >>)>> >>)>> >>)

\* {args.media_type: {"schema": schema}}
MediaContent(a, schema) ==
    PyDict(<< <<PyStr(a.media_type), PyDict(<< <<PyStr("schema"), schema>> >>)>> >>)

\* The `if args.request:` statement without its `else: del ...`.
RequestBranch_nodel(doc, a, example) ==
    IF Given(a.request) /\ Truthy(_load_file(a.request))
    THEN SetPath(doc, OpPath(a) \o <<PyStr("requestBody")>>,
                 PyDict(<< <<PyStr("content"),
                             MediaContent(a, _gen_schema(_load_file(a.request), example))>> >>))
    ELSE doc

\* The `if args.request:` statement, on a request file that opens.
RequestBranch(doc, a, example) ==
    IF Given(a.request)
    THEN LET request_load == _load_file(a.request)
         IN IF Truthy(request_load)
            THEN SetPath(doc, OpPath(a) \o <<PyStr("requestBody")>>,
                         PyDict(<< <<PyStr("content"),
                                     MediaContent(a, _gen_schema(request_load, example))>> >>))
            ELSE doc
    ELSE DelPath(doc, OpPath(a) \o <<PyStr("requestBody")>>)

\* The `if args.response:` statement, on a response file that opens.
ResponseBranch(doc, a, example) ==
    IF Given(a.response)
    THEN LET response_load == _load_file(a.response)
         IN IF Truthy(response_load)
            THEN SetPath(doc,
                         OpPath(a) \o <<PyStr("responses"), PyInt(a.resp_code), PyStr("content")>>,
                         MediaContent(a, _gen_schema(response_load, example)))
            ELSE doc
    ELSE doc

\* The warning of a branch whose file loads to a false value.
Warns(f) == Given(f) /\ ~Truthy(_load_file(f))

Procs == {1, 2}

\* global _example; _example = args.example
SetExample(p) ==
    /\ pc[p] = "start"
    /\ _example' = args[p].example
    /\ pc' = [pc EXCEPT ![p] = "skeleton"]
    /\ UNCHANGED <<args, oapi, validated, nvalidate, out, warnings, inferIn, inferOut, cli>>

\* oapi = {...}
BuildSkeleton(p) ==
    /\ pc[p] = "skeleton"
    /\ oapi' = [oapi EXCEPT ![p] = Skeleton(args[p])]
    /\ pc' = [pc EXCEPT ![p] = "request"]
    /\ UNCHANGED <<args, _example, validated, nvalidate, out, warnings, inferIn, inferOut, cli>>

\* if args.request: ... else: del ...; open() raising OSError ends main().
RequestStep(p) ==
    /\ pc[p] = "request"
    /\ IF args[p].request.fmt = "unreadable"
       THEN /\ pc' = [pc EXCEPT ![p] = "crashed"]
            /\ UNCHANGED <<oapi, warnings>>
       ELSE /\ oapi' = [oapi EXCEPT ![p] = RequestBranch(oapi[p], args[p], _example)]
            /\ warnings' = [warnings EXCEPT ![p] =
                              IF Warns(args[p].request) THEN @ \cup {"request"} ELSE @]
            /\ pc' = [pc EXCEPT ![p] = "response"]
    /\ UNCHANGED <<args, _example, validated, nvalidate, out, inferIn, inferOut, cli>>

\* if args.response: ...; open() raising OSError ends main().
ResponseStep(p) ==
    /\ pc[p] = "response"
    /\ IF args[p].response.fmt = "unreadable"
       THEN /\ pc' = [pc EXCEPT ![p] = "crashed"]
            /\ UNCHANGED <<oapi, warnings>>
       ELSE /\ oapi' = [oapi EXCEPT ![p] = ResponseBranch(oapi[p], args[p], _example)]
            /\ warnings' = [warnings EXCEPT ![p] =
                              IF Warns(args[p].response) THEN @ \cup {"response"} ELSE @]
            /\ pc' = [pc EXCEPT ![p] = "validate"]
    /\ UNCHANGED <<args, _example, validated, nvalidate, out, inferIn, inferOut, cli>>

\* What OpenAPI(oapi) can do, for any document, the validator being a library:
\* accept it, raise SpecError, or raise an exception main() does not catch.
OpenAPI_outcomes == {"valid", "SpecError", "Exception"}

\* The try statement without the `return` of its except clause.
Validate_noreturn(p) ==
    /\ pc[p] = "validate"
    /\ \E result \in OpenAPI_outcomes :
         /\ validated' = [validated EXCEPT ![p] = result]
         /\ pc' = [pc EXCEPT ![p] = IF result = "Exception" THEN "crashed" ELSE "output"]
    /\ nvalidate' = [nvalidate EXCEPT ![p] = @ + 1]
    /\ UNCHANGED <<args, oapi, _example, out, warnings, inferIn, inferOut, cli>>

\* try: OpenAPI(oapi) ... except SpecError: ... return
Validate(p) ==
    /\ pc[p] = "validate"
    /\ \E result \in OpenAPI_outcomes :
         /\ validated' = [validated EXCEPT ![p] = result]
         /\ pc' = [pc EXCEPT ![p] = CASE result = "valid" -> "output"
                                      [] result = "SpecError" -> "aborted"
                                      [] OTHER -> "crashed"]
    /\ nvalidate' = [nvalidate EXCEPT ![p] = @ + 1]
    /\ UNCHANGED <<args, oapi, _example, out, warnings, inferIn, inferOut, cli>>

NoOutput == [to |-> "none", doc |-> PyNone]

\* if args.output: yaml.dump(oapi, o, ...) else: print(yaml.dump(oapi, ...))
\* `doc` is the dict handed to yaml.dump; open() raising OSError ends main().
WriteOutput(p) ==
    /\ pc[p] = "output"
    /\ IF args[p].output.fmt = "unwritable"
       THEN /\ pc' = [pc EXCEPT ![p] = "crashed"]
            /\ UNCHANGED out
       ELSE /\ out' = [out EXCEPT ![p] =
                        [to |-> IF Given(args[p].output) THEN "file" ELSE "stdout",
                         doc |-> oapi[p]]]
            /\ pc' = [pc EXCEPT ![p] = "done"]
    /\ UNCHANGED <<args, oapi, _example, validated, nvalidate, warnings, inferIn, inferOut, cli>>

\* A direct call schema = _gen_schema(data).
InferCall ==
    /\ inferIn # <<>>
    /\ inferOut = <<>>
    /\ inferOut' = <<_gen_schema(inferIn[1], _example)>>
    /\ UNCHANGED <<args, pc, oapi, _example, validated, nvalidate, out, warnings, inferIn, cli>>

\* What the call of build_openapi in inducoapi's main() can do: return the
\* document, or raise SpecError or ValueError.
build_openapi_outcomes == {"returned", "SpecError", "ValueError"}

\* request = None; if args.request: try: ... f.read() except OSError: sys.exit(...)
CliReadRequest ==
    /\ cli.pc = "read_request"
    /\ cli' = [cli EXCEPT !.pc = IF cli.request = "unreadable" THEN "exit" ELSE "read_response"]
    /\ UNCHANGED <<args, pc, oapi, _example, validated, nvalidate, out, warnings,
                   inferIn, inferOut>>

\* response = None; if args.response: try: ... f.read() except OSError: sys.exit(...)
CliReadResponse ==
    /\ cli.pc = "read_response"
    /\ cli' = [cli EXCEPT !.pc = IF cli.response = "unreadable" THEN "exit" ELSE "build"]
    /\ UNCHANGED <<args, pc, oapi, _example, validated, nvalidate, out, warnings,
                   inferIn, inferOut>>

\* try: oapi = build_openapi(...) except SpecError: sys.exit(...) except ValueError: sys.exit(...)
CliBuild ==
    /\ cli.pc = "build"
    /\ \E outcome \in build_openapi_outcomes :
         cli' = [cli EXCEPT !.built = outcome,
                            !.pc = IF outcome = "returned" THEN "write" ELSE "exit"]
    /\ UNCHANGED <<args, pc, oapi, _example, validated, nvalidate, out, warnings,
                   inferIn, inferOut>>

\* try: _write_output(oapi, args.output) except OSError: print(...)
CliWriteOutput ==
    /\ cli.pc = "write"
    /\ cli' = [cli EXCEPT !.pc = "done",
                          !.out = CASE cli.output = "noarg" -> "stdout"
                                    [] cli.output = "unwritable" -> "none"
                                    [] OTHER -> "file"]
    /\ UNCHANGED <<args, pc, oapi, _example, validated, nvalidate, out, warnings,
                   inferIn, inferOut>>

\* One step of main() in build p.
MainStep(p) ==
    \/ SetExample(p)
    \/ BuildSkeleton(p)
    \/ RequestStep(p)
    \/ ResponseStep(p)
    \/ Validate(p)
    \/ WriteOutput(p)

Next ==
    \/ \E p \in Procs : MainStep(p)
    \/ InferCall
    \/ CliReadRequest
    \/ CliReadResponse
    \/ CliBuild
    \/ CliWriteOutput

\* Builds only: main() running in several threads of one interpreter. Threads
\* switch between the statements of main(); a switch inside a statement (between
\* two leaves of one _gen_schema call) is not modelled.
NextConc == \E p \in Procs : MainStep(p)

----------------------------------------------------------------------------
\* Inputs

Scalars ==
    {PyNone, PyBool(TRUE), PyBool(FALSE), PyInt(0), PyInt(1), PyFloat(15),
     PyStr(""), PyStr("a"), PyDate}

PropNames == {"a", "example"}

SeqsUpTo(S, n) == UNION {[1..m -> S] : m \in 0..n}

NoRepeat(s) == \A i, j \in DOMAIN s : i # j => s[i] # s[j]

\* Lists of at most MaxLen elements of S.
Lists(S) == {PyList(s) : s \in SeqsUpTo(S, MaxLen)}

\* Dicts of at most MaxLen items, keys from PropNames in any order, values in S.
Dicts(S) ==
    UNION {{PyDict([i \in DOMAIN ks |-> <<PyStr(ks[i]), vs[i]>>]) : vs \in [DOMAIN ks -> S]} :
           ks \in {s \in SeqsUpTo(PropNames, MaxLen) : NoRepeat(s)}}

Flat == Scalars \cup Lists(Scalars) \cup Dicts(Scalars)

\* What the containers of the second level hold.
InnerValues ==
    {PyInt(1), PyBool(TRUE), PyList(<<>>), PyList(<<PyBool(FALSE), PyStr("a")>>), EmptyDict,
     PyDict(<< <<PyStr("a"), PyNone>> >>)}

\* The arguments of the direct calls of _gen_schema.
Values == Flat \cup Lists(InnerValues) \cup Dicts(InnerValues)

DeepSample ==
    PyDict(<< <<PyStr("a"),
                PyList(<<PyDict(<< <<PyStr("example"), PyBool(FALSE)>> >>), PyInt(0)>>)>> >>)

\* The payloads of the files given to main().
BuildValues ==
    Scalars \cup {PyList(<<>>), EmptyDict, DeepSample}
    \cup {PyList(<<e>>) : e \in {PyBool(TRUE), PyNone, PyStr("a")}}
    \cup {PyDict(<< <<PyStr(n), e>> >>) : n \in PropNames, e \in {PyInt(1), PyNone}}

RECURSIVE HasDate(_)
HasDate(val) ==
    CASE val.k = "date" -> TRUE
      [] val.k = "list" -> \E i \in DOMAIN val.v : HasDate(val.v[i])
      [] val.k = "dict" -> \E i \in DOMAIN val.v : HasDate(val.v[i][2])
      [] OTHER -> FALSE

\* JSON has no dates; an empty file is YAML for None.
Files ==
    {File("json", val) : val \in {w \in BuildValues : ~HasDate(w)}}
    \cup {File("yaml", val) : val \in {PyNone, PyDate, DeepSample}}
    \cup {File("bad", PyNone), File("unreadable", PyNone)}

Calls ==
    {<<"GET", "/employees", 200>>, <<"POST", "/employees", 201>>,
     <<"DELETE", "/employees/1", 404>>}

MediaTypes == {"application/json", "application/yaml"}

Args(call, request, response, output, example, media_type) ==
    [method |-> call[1], path |-> call[2], resp_code |-> call[3],
     request |-> request, response |-> response, output |-> output,
     example |-> example, media_type |-> media_type]

ArgsSet ==
    {Args(call, request, response, output, example, media_type) :
        call \in Calls, request \in Files \cup {NoArg}, response \in Files \cup {NoArg},
        output \in {NoArg, File("out", PyNone), File("unwritable", PyNone)}, example \in BOOLEAN,
        media_type \in MediaTypes}

IdleArgs == Args(<<"GET", "/", 200>>, NoArg, NoArg, NoArg, TRUE, "application/json")

\* No build has started: the state of the freshly imported module.
Fresh ==
    /\ oapi = [p \in Procs |-> PyNone]
    /\ validated = [p \in Procs |-> "none"]
    /\ nvalidate = [p \in Procs |-> 0]
    /\ out = [p \in Procs |-> NoOutput]
    /\ warnings = [p \in Procs |-> {}]

\* inducoapi's main() is not running.
CliOff ==
    [pc |-> "off", request |-> "noarg", response |-> "noarg", output |-> "noarg",
     built |-> "none", out |-> "none"]

\* One run of main().
InitMain ==
    /\ Fresh
    /\ _example = FALSE
    /\ \E a \in ArgsSet : args = [p \in Procs |-> IF p = 1 THEN a ELSE IdleArgs]
    /\ pc = [p \in Procs |-> IF p = 1 THEN "start" ELSE "off"]
    /\ inferIn = <<>>
    /\ inferOut = <<>>
    /\ cli = CliOff

\* One direct call of _gen_schema, `_example` being either value.
InitInfer ==
    /\ Fresh
    /\ _example \in BOOLEAN
    /\ args = [p \in Procs |-> IdleArgs]
    /\ pc = [p \in Procs |-> "off"]
    /\ inferIn \in {<<val>> : val \in Values}
    /\ inferOut = <<>>
    /\ cli = CliOff

\* One run of inducoapi's main(): each file option absent, a file that reads,
\* or a file that does not open.
InitCli ==
    /\ Fresh
    /\ _example = FALSE
    /\ args = [p \in Procs |-> IdleArgs]
    /\ pc = [p \in Procs |-> "off"]
    /\ inferIn = <<>>
    /\ inferOut = <<>>
    /\ \E request, response \in {"noarg", "file", "unreadable"},
          output \in {"noarg", "file", "unwritable"} :
          cli = [pc |-> "read_request", request |-> request, response |-> response,
                 output |-> output, built |-> "none", out |-> "none"]

Init == InitMain \/ InitInfer \/ InitCli

Spec == Init /\ [][Next]_vars

\* The command lines of the concurrent builds: they differ in --no-example
\* and in the response payload.
ConcArgsSet ==
    {Args(<<"GET", "/employees", 200>>, NoArg, response, NoArg, example, "application/json") :
        response \in {File("json", PyList(<<PyStr("a")>>)),
                      File("json", PyDict(<< <<PyStr("a"), PyNone>> >>))},
        example \in BOOLEAN}

\* Two runs of main() started together.
InitConc ==
    /\ Fresh
    /\ _example = FALSE
    /\ args \in [Procs -> ConcArgsSet]
    /\ pc = [p \in Procs |-> "start"]
    /\ inferIn = <<>>
    /\ inferOut = <<>>
    /\ cli = CliOff

SpecConc == InitConc /\ [][NextConc]_vars

----------------------------------------------------------------------------
\* Properties

\* Build p has run its `if args.request:` statement to the end.
ReqDone(p) ==
    \/ pc[p] \in {"response", "validate", "output", "done", "aborted"}
    \/ pc[p] = "crashed" /\ args[p].request.fmt # "unreadable"

\* Build p has run its `if args.response:` statement to the end.
RespDone(p) ==
    \/ pc[p] \in {"validate", "output", "done", "aborted"}
    \/ pc[p] = "crashed" /\ validated[p] # "none"

\* The text of the file decodes, as JSON or as YAML.
Decodes(f) == f.fmt \in {"json", "yaml"}

ReqBodyPath(a) == OpPath(a) \o <<PyStr("requestBody")>>
RespContentPath(a) == OpPath(a) \o <<PyStr("responses"), PyInt(a.resp_code), PyStr("content")>>
ReqSchemaPath(a) == ReqBodyPath(a) \o <<PyStr("content"), PyStr(a.media_type), PyStr("schema")>>
RespSchemaPath(a) == RespContentPath(a) \o <<PyStr(a.media_type), PyStr("schema")>>

\* The fixed type map of the scalar JSON values.
T(val) ==
    CASE val.k = "None" -> "string"
      [] val.k = "str" -> "string"
      [] val.k = "bool" -> "boolean"
      [] val.k = "int" -> "integer"
      [] val.k = "float" -> "number"

JsonScalarKinds == {"None", "str", "bool", "int", "float"}

\* C1: for every scalar JSON value v, the schema _gen_schema returns for v has
\* type T(v); true and false are typed "boolean", never "integer".
C1_LeafTypeIsT ==
    (inferOut # <<>> /\ inferIn[1].k \in JsonScalarKinds)
        => /\ HasKey(inferOut[1], PyStr("type"))
           /\ GetItem(inferOut[1], PyStr("type")) = PyStr(T(inferIn[1]))

\* C2: a request (response) file that decodes neither as JSON nor as YAML does
\* not end the build, and the operation has no `requestBody` key
\* (`responses[code]` has no `content` key).
C2_UndecodableOmitted ==
    \A p \in Procs :
        /\ (pc[p] = "crashed" /\ validated[p] = "none") =>
               "unreadable" \in {args[p].request.fmt, args[p].response.fmt}
        /\ (ReqDone(p) /\ args[p].request.fmt = "bad") =>
               ~HasPath(oapi[p], ReqBodyPath(args[p]))
        /\ (RespDone(p) /\ args[p].response.fmt = "bad") =>
               ~HasPath(oapi[p], RespContentPath(args[p]))

\* C3: whenever the request (response) file decodes to a value v, whatever v
\* is, the operation holds _gen_schema(v) at requestBody.content[mediaType].schema
\* (responses[code].content[mediaType].schema), under the given media type only.
C3_DecodedSchemaPlaced ==
    \A p \in Procs :
        /\ (ReqDone(p) /\ Decodes(args[p].request)) =>
               /\ HasPath(oapi[p], ReqSchemaPath(args[p]))
               /\ GetPath(oapi[p], ReqSchemaPath(args[p]))
                      = _gen_schema(args[p].request.val, args[p].example)
               /\ KeysOf(GetPath(oapi[p], ReqBodyPath(args[p]) \o <<PyStr("content")>>))
                      = <<PyStr(args[p].media_type)>>
        /\ (RespDone(p) /\ Decodes(args[p].response)) =>
               /\ HasPath(oapi[p], RespSchemaPath(args[p]))
               /\ GetPath(oapi[p], RespSchemaPath(args[p]))
                      = _gen_schema(args[p].response.val, args[p].example)
               /\ KeysOf(GetPath(oapi[p], RespContentPath(args[p])))
                      = <<PyStr(args[p].media_type)>>

\* The key is the response code, as the integer or as its decimal text.
KeyForCode(key, code) == key = PyInt(code) \/ key = PyStr(ToString(code))

\* C4: a build with neither a request nor a response file yields a document
\* with one path and one operation, which has no `requestBody` key and whose
\* `responses` has exactly one entry, for the given code, equal to
\* {description: ""}; that document is the one dumped.
C4_BareBuild ==
    \A p \in Procs :
        (RespDone(p) /\ ~Given(args[p].request) /\ ~Given(args[p].response)) =>
            LET a == args[p]
                paths == GetItem(oapi[p], PyStr("paths"))
                op == GetPath(oapi[p], OpPath(a))
                responses == GetItem(op, PyStr("responses"))
            IN /\ KeysOf(paths) = <<PyStr(a.path)>>
               /\ KeysOf(GetItem(paths, PyStr(a.path))) = <<PyStr(lower(a.method))>>
               /\ ~HasKey(op, PyStr("requestBody"))
               /\ Len(responses.v) = 1
               /\ KeyForCode(responses.v[1][1], a.resp_code)
               /\ responses.v[1][2] = PyDict(<< <<PyStr("description"), PyStr("")>> >>)
               /\ (pc[p] = "done" => out[p].doc = oapi[p])

C4_Witness ==
    /\ pc[1] = "done"
    /\ ~Given(args[1].request)
    /\ ~Given(args[1].response)
    /\ args[1].method = "DELETE"

\* C5: every key under `responses` of the assembled document is a string, the
\* decimal text of the response code.
C5_ResponseKeyIsString ==
    \A p \in Procs :
        (oapi[p] # PyNone) =>
            LET responses == GetItem(GetPath(oapi[p], OpPath(args[p])), PyStr("responses"))
            IN \A i \in DOMAIN responses.v :
                   responses.v[i][1] = PyStr(ToString(args[p].resp_code))

\* Some dict at some depth of val has the key.
RECURSIVE HasKeyAnywhere(_, _)
HasKeyAnywhere(val, key) ==
    CASE val.k = "dict" ->
            HasKey(val, key) \/ \E i \in DOMAIN val.v : HasKeyAnywhere(val.v[i][2], key)
      [] val.k = "list" -> \E i \in DOMAIN val.v : HasKeyAnywhere(val.v[i], key)
      [] OTHER -> FALSE

\* Along the schema `node` inferred for `val`: a leaf carries `example` iff
\* enabled, with the scalar as its value ("" for None); a container never does.
RECURSIVE ExampleOnLeaves(_, _, _)
ExampleOnLeaves(val, node, enabled) ==
    CASE val.k = "dict" ->
            /\ ~HasKey(node, PyStr("example"))
            /\ HasKey(node, PyStr("properties"))
            /\ LET props == GetItem(node, PyStr("properties"))
               IN /\ Len(props.v) = Len(val.v)
                  /\ \A i \in DOMAIN val.v :
                         ExampleOnLeaves(val.v[i][2], props.v[i][2], enabled)
      [] val.k = "list" ->
            /\ ~HasKey(node, PyStr("example"))
            /\ HasKey(node, PyStr("items"))
            /\ IF val.v = <<>>
               THEN GetItem(node, PyStr("items")) = EmptyDict
               ELSE ExampleOnLeaves(val.v[1], GetItem(node, PyStr("items")), enabled)
      [] OTHER ->
            /\ HasKey(node, PyStr("example")) <=> enabled
            /\ enabled =>
                   GetItem(node, PyStr("example")) = (IF val = PyNone THEN PyStr("") ELSE val)

\* No schema node of the schema rooted at `node` has the key `example`.
RECURSIVE NoExampleNode(_)
NoExampleNode(node) ==
    /\ ~HasKey(node, PyStr("example"))
    /\ HasKey(node, PyStr("properties")) =>
           LET props == GetItem(node, PyStr("properties"))
           IN \A i \in DOMAIN props.v : NoExampleNode(props.v[i][2])
    /\ HasKey(node, PyStr("items")) => NoExampleNode(GetItem(node, PyStr("items")))

\* The schema nodes of a direct call and of the document of a build run alone
\* carry `example` on their leaves only, and only when enabled.
ExampleOnSchemaNodes ==
    /\ (inferOut # <<>>) =>
           /\ ExampleOnLeaves(inferIn[1], inferOut[1], _example)
           /\ ~_example => NoExampleNode(inferOut[1])
    /\ \A p \in Procs :
           /\ HasPath(oapi[p], ReqSchemaPath(args[p])) =>
                  /\ ExampleOnLeaves(_load_file(args[p].request),
                                     GetPath(oapi[p], ReqSchemaPath(args[p])), args[p].example)
                  /\ ~args[p].example => NoExampleNode(GetPath(oapi[p], ReqSchemaPath(args[p])))
           /\ HasPath(oapi[p], RespSchemaPath(args[p])) =>
                  /\ ExampleOnLeaves(_load_file(args[p].response),
                                     GetPath(oapi[p], RespSchemaPath(args[p])), args[p].example)
                  /\ ~args[p].example => NoExampleNode(GetPath(oapi[p], RespSchemaPath(args[p])))

\* C6, as stated: schema nodes carry `example` on leaves only and only when
\* enabled, and a build with example generation disabled has no `example` key
\* at any depth of its document.
C6_NoExampleKeyAnywhere ==
    /\ ExampleOnSchemaNodes
    /\ \A p \in Procs :
           ~args[p].example => ~HasKeyAnywhere(oapi[p], PyStr("example"))

\* C6, amended: schema nodes carry `example` on leaves only and only when
\* enabled; with example generation disabled no schema node of the document
\* has the key `example`, and any `example` key of the document is the name of
\* a property of the payload.
C6_ExampleOnLeaves ==
    /\ ExampleOnSchemaNodes
    /\ \A p \in Procs :
           (~args[p].example /\ HasKeyAnywhere(oapi[p], PyStr("example"))) =>
               \/ HasKeyAnywhere(args[p].request.val, PyStr("example"))
               \/ HasKeyAnywhere(args[p].response.val, PyStr("example"))

C6_Witness ==
    /\ pc[1] = "done"
    /\ ~args[1].example
    /\ args[1].request = File("json", PyDict(<< <<PyStr("example"), PyNone>> >>))
    /\ args[1].response = File("yaml", DeepSample)
    /\ HasPath(oapi[1], ReqSchemaPath(args[1]))
    /\ HasPath(oapi[1], RespSchemaPath(args[1]))

\* C7: a document is dumped only after OpenAPI(oapi) has accepted it; the
\* validation runs at most once, after the request and response statements and
\* before any output, and a SpecError ends the build with nothing dumped;
\* inducoapi's main() writes only what build_openapi returned.
C7_OutputOnlyAfterValidation ==
    /\ \A p \in Procs :
           /\ nvalidate[p] <= 1
           /\ (nvalidate[p] = 1) <=> (validated[p] # "none")
           /\ (validated[p] # "none") => pc[p] \in {"output", "done", "aborted", "crashed"}
           /\ (out[p] # NoOutput) => (validated[p] = "valid" /\ pc[p] = "done")
           /\ (validated[p] = "SpecError") => (out[p] = NoOutput /\ pc[p] = "aborted")
           /\ (validated[p] = "Exception") => (out[p] = NoOutput /\ pc[p] = "crashed")
           /\ (pc[p] = "done") => out[p].doc = oapi[p]
    /\ (cli.out # "none") => (cli.built = "returned" /\ cli.pc = "done")
    /\ (cli.built \in {"SpecError", "ValueError"}) => (cli.out = "none" /\ cli.pc = "exit")

C7_Witness ==
    /\ pc[1] = "aborted"
    /\ validated[1] = "SpecError"
    /\ out[1] = NoOutput
    /\ Given(args[1].output)
    /\ HasPath(oapi[1], RespSchemaPath(args[1]))

\* The document main() builds from `a` when it runs alone.
SoloDoc(a) == ResponseBranch(RequestBranch(Skeleton(a), a, a.example), a, a.example)

\* C8: in any interleaving of two builds, each build's document is the one
\* that build produces when run alone.
C8_ConcurrentBuildsIsolated ==
    \A p \in Procs : RespDone(p) => oapi[p] = SoloDoc(args[p])

\* C9: for an array, _gen_schema yields {type: "array", items: I} with I = {}
\* for the empty array and the schema of the first element otherwise; the
\* elements after the first do not change the schema.
C9_ArrayItems ==
    (inferOut # <<>> /\ inferIn[1].k = "list") =>
        LET data == inferIn[1].v
            schema == inferOut[1]
        IN /\ KeysOf(schema) = <<PyStr("type"), PyStr("items")>>
           /\ GetItem(schema, PyStr("type")) = PyStr("array")
           /\ GetItem(schema, PyStr("items"))
                  = (IF data = <<>> THEN EmptyDict ELSE _gen_schema(data[1], _example))
           /\ data # <<>> =>
                  \A rest \in SeqsUpTo(Scalars \cup InnerValues, MaxLen - 1) :
                      _gen_schema(PyList(<<data[1]>> \o rest), _example) = schema

C9_Witness ==
    /\ inferOut # <<>>
    /\ inferIn[1] = PyList(<<PyList(<<>>), PyInt(1)>>)

\* C10: for an object, _gen_schema yields {type: "object", properties: P}
\* where P has the keys of the object in the same order and P[k] is the
\* schema of the value of k.
C10_ObjectProperties ==
    (inferOut # <<>> /\ inferIn[1].k = "dict") =>
        LET data == inferIn[1]
            schema == inferOut[1]
        IN /\ KeysOf(schema) = <<PyStr("type"), PyStr("properties")>>
           /\ GetItem(schema, PyStr("type")) = PyStr("object")
           /\ LET P == GetItem(schema, PyStr("properties"))
              IN /\ P.k = "dict"
                 /\ KeysOf(P) = KeysOf(data)
                 /\ \A i \in DOMAIN data.v :
                        P.v[i][2] = _gen_schema(data.v[i][2], _example)

C10_Witness ==
    /\ inferOut # <<>>
    /\ inferIn[1] = PyDict(<< <<PyStr("example"), PyDict(<< <<PyStr("a"), PyNone>> >>)>>,
                              <<PyStr("a"), PyInt(1)>> >>)

====
